---- MODULE Spec2Model ----
(***************************************************************************)
(* Model of the sitemap resolver (sitemap_extractor.py), the product page  *)
(* scraper (product_scraper_automated.py) and the bulk orchestrator        *)
(* (bulk_scraper.py).                                                      *)
(*                                                                         *)
(* A URL "https://h/s1/s2" is the sequence <<h, s1, s2>> of the texts      *)
(* between its slashes.  A text shown on a page is a sequence of           *)
(* characters.  A file name "stem.ext" is the record                       *)
(* [stem |-> ..., ext |-> ...], where the stem is [base |-> b, n |-> k]:   *)
(* k = 0 for the literal stem b and k > 0 for the generated stem           *)
(* f'product_{k}'.                                                         *)
(***************************************************************************)
EXTENDS Integers, Sequences, FiniteSets, TLC

\* ------------------------------------------------------------------ bounds
MaxChildren == 3   \* entries of a sitemap index document
MaxLeafUrls == 3   \* entries of a leaf sitemap document
MaxLimit == 2      \* largest max_urls argument
MaxRerunUrls == 2  \* product URLs of an object scraped twice

\* ------------------------------------------------------- generic helpers
SeqUpTo(S, n) == UNION {[1..k -> S] : k \in 0..n}

Prefix(s, n) == SubSeq(s, 1, IF n < Len(s) THEN n ELSE Len(s))

\* ------------------------------------------------------------- the URLs
Site == "thehouseofrare.com"
WwwSite == "www.thehouseofrare.com"
OtherSite == "other.com"

SitemapUrl == <<Site, "sitemap.xml">>

\* child sitemap locations an index can declare
LocPages == <<Site, "sitemap_pages.xml">>
LocProducts1 == <<Site, "sitemap_products_1.xml">>
LocProducts2 == <<Site, "Sitemap_PRODUCTS_2.xml">>
LocBlogs == <<Site, "sitemap_blogs.xml">>
ChildLocs == {LocPages, LocProducts1, LocProducts2, LocBlogs}

\* page locations a leaf sitemap can declare
UrlX == <<Site, "products", "x">>
UrlBlueShirt == <<Site, "products", "blue-shirt">>
UrlAllProducts == <<Site, "products", "all_products">>
UrlFailedUrls == <<Site, "products", "failed_urls">>
UrlOther == <<OtherSite, "products", "x">>
UrlAbout == <<Site, "about">>
LeafLocs == {UrlX, UrlBlueShirt, UrlAllProducts, UrlFailedUrls, UrlOther, UrlAbout}

\* str.lower() of one text between slashes
Lower(t) ==
    CASE t = "Sitemap_PRODUCTS_2.xml" -> "sitemap_products_2.xml"
      [] OTHER -> t

\* 'product' in t, for a lower-cased text between slashes
HasProductToken(t) ==
    t \in {"products", "sitemap_products_1.xml", "sitemap_products_2.xml",
           "all_products"}

\* 'product' in url.lower()
ContainsProduct(url) == \E k \in 1..Len(url) : HasProductToken(Lower(url[k]))

\* the occurrences of '/products/' in url: a text "products" that is
\* followed by a slash (it is always preceded by one)
ProductsAt(url, k) == k \in 1..(Len(url) - 1) /\ url[k] = "products"

\* '/products/' in url
HasProductsPath(url) == \E k \in 1..Len(url) : ProductsAt(url, k)

\* url.split('/products/')[-1]: the matches are taken left to right and do
\* not overlap (a match uses up the slash that would start the next one)
RECURSIVE SplitLast(_, _, _)
SplitLast(url, k, from) ==
    IF k > Len(url) THEN SubSeq(url, from, Len(url))
    ELSE IF ProductsAt(url, k) THEN SplitLast(url, k + 2, k + 1)
    ELSE SplitLast(url, k + 1, from)

\* re.search(url_pattern, url) for a pattern that is a literal text
NoPattern == "<none>"
UrlPatterns == {NoPattern, "shirt"}
re_search(pattern, url) ==
    \E k \in 1..Len(url) :
        \/ url[k] = pattern
        \/ pattern = "shirt" /\ url[k] = "blue-shirt"

\* ------------------------------------------------- sitemap documents
\* An entry is a child element of the root: its tag and its <loc> text.
Entry(tag, loc) == [tag |-> tag, hasLoc |-> TRUE, loc |-> loc]
NoLocEntry(tag) == [tag |-> tag, hasLoc |-> FALSE, loc |-> <<>>]

IndexEntries == {Entry("sitemap", l) : l \in ChildLocs} \cup {NoLocEntry("sitemap")}
LeafEntries == {Entry("url", l) : l \in LeafLocs}

Doc(root, entries) == [wellFormed |-> TRUE, root |-> root, entries |-> entries]
MalformedDoc == [wellFormed |-> FALSE, root |-> "", entries |-> <<>>]

IndexDocs == {Doc("sitemapindex", es) : es \in SeqUpTo(IndexEntries, MaxChildren)}
LeafDocs == {Doc("urlset", es) : es \in SeqUpTo(LeafEntries, MaxLeafUrls)}

\* leaf documents in which a <url> entry may lack its <loc>
SparseLeafEntries == {Entry("url", UrlX), NoLocEntry("url")}
SparseLeafDocs == {Doc("urlset", es) : es \in SeqUpTo(SparseLeafEntries, MaxLeafUrls)}

SitemapDocs == IndexDocs \cup LeafDocs \cup SparseLeafDocs \cup {MalformedDoc}

\* what requests.get + raise_for_status gives for a sitemap URL
TransportFailure == [wellFormed |-> FALSE, root |-> "<transport failure>", entries |-> <<>>]
SitemapResponses == SitemapDocs \cup {TransportFailure}

NoContent == [wellFormed |-> FALSE, root |-> "<None>", entries |-> <<>>]

\* ------------------------------------------ SitemapExtractor, pure parts
_is_sitemap_index(content) ==
    /\ content.wellFormed
    /\ \/ content.root = "sitemapindex"
       \/ \E k \in 1..Len(content.entries) : content.entries[k].tag = "sitemap"

\* the <loc> texts of the entries with the given tag, in document order
RECURSIVE LocsOf(_, _)
LocsOf(entries, tag) ==
    IF entries = <<>> THEN <<>>
    ELSE IF Head(entries).tag = tag /\ Head(entries).hasLoc
         THEN <<Head(entries).loc>> \o LocsOf(Tail(entries), tag)
         ELSE LocsOf(Tail(entries), tag)

\* an index resolver that takes the first declared child, unfiltered
_process_sitemap_index_first(content) ==
    LET sitemap_urls == LocsOf(content.entries, "sitemap")
    IN  [raised |-> sitemap_urls = <<>>, product_sitemaps |-> Prefix(sitemap_urls, 1)]

\* an index resolver without the fallback to the first declared child
_process_sitemap_index_nofallback(content) ==
    LET filtered == SelectSeq(LocsOf(content.entries, "sitemap"), ContainsProduct)
    IN  [raised |-> filtered = <<>>, product_sitemaps |-> filtered]

\* _process_sitemap_index up to its call of _load_and_parse_sitemap: the
\* list product_sitemaps, and whether the log line that reads
\* product_sitemaps[0] raised
_process_sitemap_index(content) ==
    LET sitemap_urls == LocsOf(content.entries, "sitemap")
        filtered == SelectSeq(sitemap_urls, ContainsProduct)
        product_sitemaps == IF filtered = <<>> THEN Prefix(sitemap_urls, 1)
                            ELSE filtered
    IN  IF product_sitemaps = <<>>
        THEN [raised |-> TRUE, product_sitemaps |-> product_sitemaps]
        ELSE [raised |-> FALSE, product_sitemaps |-> product_sitemaps]

\* a parser that swallows malformed XML and yields an empty list
_parse_sitemap_swallow(content) ==
    [raised |-> FALSE,
     urls |-> IF content.wellFormed THEN LocsOf(content.entries, "url") ELSE <<>>]

\* a parser that keeps only the first occurrence of each location
_parse_sitemap_dedup(content) ==
    LET l == LocsOf(content.entries, "url")
        f[k \in 0..Len(l)] ==
            IF k = 0 THEN <<>>
            ELSE IF \E j \in 1..(k - 1) : l[j] = l[k] THEN f[k - 1]
                 ELSE Append(f[k - 1], l[k])
    IN  IF ~content.wellFormed THEN [raised |-> TRUE, urls |-> <<>>]
        ELSE [raised |-> FALSE, urls |-> f[Len(l)]]

\* _parse_sitemap: raises on malformed XML, else the value of all_urls
_parse_sitemap(content) ==
    IF ~content.wellFormed THEN [raised |-> TRUE, urls |-> <<>>]
    ELSE [raised |-> FALSE, urls |-> LocsOf(content.entries, "url")]

\* the loop body of SitemapExtractor.extract_product_urls for one url
ProductData(url) == [url |-> url, product_name |-> SplitLast(url, 1, 1)]

KeepUrl(url, url_pattern) ==
    /\ HasProductsPath(url)
    /\ ~(url_pattern # NoPattern /\ ~re_search(url_pattern, url))

RECURSIVE FilterProducts(_, _)
FilterProducts(urls, url_pattern) ==
    IF urls = <<>> THEN <<>>
    ELSE IF KeepUrl(Head(urls), url_pattern)
         THEN <<ProductData(Head(urls))>> \o FilterProducts(Tail(urls), url_pattern)
         ELSE FilterProducts(Tail(urls), url_pattern)

\* an extraction that returns an empty list when no URL list is loaded
extract_product_urls_lenient(all, url_pattern) ==
    [raised |-> FALSE, product_urls |-> FilterProducts(all, url_pattern)]

\* SitemapExtractor.extract_product_urls
extract_product_urls(all, url_pattern) ==
    IF all = <<>> THEN [raised |-> TRUE, product_urls |-> <<>>]
    ELSE [raised |-> FALSE, product_urls |-> FilterProducts(all, url_pattern)]

\* ------------------------------------------------------ product pages
\* A text on a page is a sequence of characters; "R" stands for the rupee
\* sign.  NoElem: the page has no such element.
NoElem == <<"<no element>">>
Digits == {"0", "1", "2", "3", "4", "5", "6", "7", "8", "9"}
DigitValue(c) ==
    CASE c = "0" -> 0 [] c = "1" -> 1 [] c = "2" -> 2 [] c = "3" -> 3
      [] c = "4" -> 4 [] c = "5" -> 5 [] c = "6" -> 6 [] c = "7" -> 7
      [] c = "8" -> 8 [] c = "9" -> 9

Text1999 == <<"R", "1", ",", "9", "9", "9">>
Text1499 == <<"R", "1", ",", "4", "9", "9">>
Text799 == <<"M", "R", "P", " ", "R", " ", "7", "9", "9">>
TextComma == <<"R", ",">>

NoHandle == [base |-> "<none>", n |-> 0]
Stem(b) == [base |-> b, n |-> 0]

Empty == [k \in {} |-> 0]

\* the aggregateRating of the page's ld+json Product script
Rating(ratingValue, reviewCount) ==
    [present |-> TRUE, ratingValue |-> ratingValue, reviewCount |-> reviewCount]
NoRating == [present |-> FALSE, ratingValue |-> <<>>, reviewCount |-> <<>>]

\* an <input name="Size"> of the page and whether its <h3> parent has the
\* class inactive-option
SizeInput(value, inactive) == [value |-> value, inactive |-> inactive]

\* the parts of a page that the specification, size, image and rating
\* extractors read
Details(specs, sizes, images, rating) ==
    [specs |-> specs, sizes |-> sizes, images |-> images, rating |-> rating]
NoDetails == Details(Empty, <<>>, <<>>, NoRating)

ShirtDetails(rating) ==
    Details([n \in {"fabric", "pattern"} |-> IF n = "fabric" THEN "Cotton" ELSE ""],
            <<SizeInput("S", FALSE), SizeInput("M", TRUE)>>,
            <<"cdn/shirt_1.jpg", "cdn/shirt_2.jpg", "cdn/shirt_1.jpg">>,
            rating)

\* what the site serves at each product URL
PageOf(url) ==
    CASE url = UrlX ->
           [handle |-> Stem("x"), main_title |-> "X Shirt",
            wrapper |-> TRUE, compare |-> Text1999, regular |-> Text1499,
            details |-> ShirtDetails(Rating(<<"4", ".", "5">>, <<"1", "2">>))]
      [] url = UrlBlueShirt ->
           [handle |-> NoHandle, main_title |-> "Blue Shirt",
            wrapper |-> TRUE, compare |-> Text1999, regular |-> NoElem,
            details |-> ShirtDetails(Rating(<<"4", ".", "5">>,
                                            <<"1", ",", "2", "0", "4">>))]
      [] url = UrlAllProducts ->
           [handle |-> Stem("all_products"), main_title |-> "",
            wrapper |-> TRUE, compare |-> TextComma, regular |-> Text799,
            details |-> ShirtDetails(Rating(<<"n", "/", "a">>, <<"1", "2">>))]
      [] url = UrlFailedUrls ->
           [handle |-> Stem("failed_urls"), main_title |-> "Failed Urls",
            wrapper |-> TRUE, compare |-> NoElem, regular |-> Text799,
            details |-> NoDetails]
      [] OTHER ->
           [handle |-> NoHandle, main_title |-> "",
            wrapper |-> FALSE, compare |-> NoElem, regular |-> NoElem,
            details |-> NoDetails]

\* ------------------------------------------- ProductScraper, pure parts
\* the end of the \s* run that starts at position k
RECURSIVE SkipSpaces(_, _)
SkipSpaces(t, k) ==
    IF k <= Len(t) /\ t[k] = " " THEN SkipSpaces(t, k + 1) ELSE k

\* the end (exclusive) of the greedy [\d,]+ run that starts at position k
RECURSIVE RunEnd(_, _)
RunEnd(t, k) ==
    IF k <= Len(t) /\ t[k] \in Digits \cup {","} THEN RunEnd(t, k + 1) ELSE k

\* re.search(r'R\s*([\d,]+)', t).group(1) from position k on; <<>> if no match
RECURSIVE PriceMatch(_, _)
PriceMatch(t, k) ==
    IF k > Len(t) THEN [found |-> FALSE, group |-> <<>>]
    ELSE LET j == SkipSpaces(t, k + 1)
             e == RunEnd(t, j)
         IN  IF t[k] = "R" /\ e > j
             THEN [found |-> TRUE, group |-> SubSeq(t, j, e - 1)]
             ELSE PriceMatch(t, k + 1)

\* group.replace(',', '')
RemoveCommas(g) == SelectSeq(g, LAMBDA c : c # ",")

\* int(digits); the caller checks digits # <<>> (int('') raises ValueError)
RECURSIVE ToInt(_)
ToInt(d) ==
    IF d = <<>> THEN 0
    ELSE 10 * ToInt(SubSeq(d, 1, Len(d) - 1)) + DigitValue(d[Len(d)])

\* one price span: "none" (no element or no match), "raise" (int failed)
\* or "ok" with the value
ReadPrice(elem) ==
    IF elem = NoElem THEN [res |-> "none", value |-> 0]
    ELSE LET m == PriceMatch(elem, 1)
         IN  IF ~m.found THEN [res |-> "none", value |-> 0]
             ELSE IF RemoveCommas(m.group) = <<>> THEN [res |-> "raise", value |-> 0]
             ELSE [res |-> "ok", value |-> ToInt(RemoveCommas(m.group))]

\* the savings computation of extract_pricing_info
Savings(pricing_info) ==
    IF "original_price" \in DOMAIN pricing_info /\ "sale_price" \in DOMAIN pricing_info
    THEN ("savings_amount" :> (pricing_info["original_price"] - pricing_info["sale_price"]))
         @@ pricing_info
    ELSE pricing_info

\* extract_pricing_info: an exception inside the try block ends the
\* extraction and the dictionary gathered so far is returned
extract_pricing_info(page) ==
    LET orig == IF page.wrapper THEN ReadPrice(page.compare) ELSE [res |-> "none", value |-> 0]
        sale == IF page.wrapper THEN ReadPrice(page.regular) ELSE [res |-> "none", value |-> 0]
        p1 == IF orig.res = "ok"
              THEN ("original_price" :> orig.value)
                   @@ ("original_price_formatted" :> page.compare) @@ Empty
              ELSE Empty
        p2 == IF sale.res = "ok"
              THEN ("sale_price" :> sale.value)
                   @@ ("sale_price_formatted" :> page.regular) @@ p1
              ELSE p1
    IN  IF orig.res = "raise" THEN Empty
        ELSE IF sale.res = "raise" THEN p1
        ELSE ("currency" :> "INR") @@ Savings(p2)

\* what an extractor's try block gives: the dictionary gathered, and
\* whether an exception ended the block
Gathered(d) == [raised |-> FALSE, gathered |-> d]
RaisedAfter(d) == [raised |-> TRUE, gathered |-> d]

\* an extractor without the except clause: the exception leaves it
ExceptLogged_reraise(r) == r

\* "except Exception as e: logger.error(...)" followed by the return of the
\* dictionary: the exception is logged and goes no further
ExceptLogged(r) == Gathered(r.gathered)

\* extract_product_specifications, the loop over spec_names
SpecNames == {"fabric", "fit", "closure", "collar", "sleeve", "pattern", "occasion"}
extract_product_specifications(page) ==
    LET inputs == page.details.specs
        kept == {n \in SpecNames \cap DOMAIN inputs : inputs[n] # "" \/ n = "pattern"}
    IN  ExceptLogged(Gathered(
            [n \in kept |-> IF inputs[n] # "" THEN inputs[n] ELSE "SOLID"]))

\* the entries of a list without repetitions, in order of first occurrence
RECURSIVE Unique(_, _)
Unique(sq, seen) ==
    IF sq = <<>> THEN <<>>
    ELSE IF Head(sq) \in seen THEN Unique(Tail(sq), seen)
    ELSE <<Head(sq)>> \o Unique(Tail(sq), seen \cup {Head(sq)})

\* extract_size_availability
extract_size_availability(page) ==
    LET inputs == SelectSeq(page.details.sizes, LAMBDA e : e.value # "")
        sizes == [k \in 1..Len(inputs) |-> inputs[k].value]
        last(v) == CHOOSE k \in 1..Len(inputs) :
                      /\ inputs[k].value = v
                      /\ \A j \in (k + 1)..Len(inputs) : inputs[j].value # v
        size_availability ==
            [v \in {sizes[k] : k \in 1..Len(sizes)} |-> ~inputs[last(v)].inactive]
    IN  ExceptLogged(Gathered(
            IF sizes = <<>> THEN Empty
            ELSE ("available_sizes" :> sizes)
                 @@ ("size_availability" :> size_availability)
                 @@ ("in_stock_sizes" :>
                        SelectSeq(Unique(sizes, {}), LAMBDA v : size_availability[v]))
                 @@ ("out_of_stock_sizes" :>
                        SelectSeq(Unique(sizes, {}), LAMBDA v : ~size_availability[v]))))

\* extract_product_images, for image URLs that need no prefix
extract_product_images(page) ==
    LET unique_images == Unique(page.details.images, {})
    IN  ExceptLogged(Gathered(
            IF unique_images = <<>> THEN Empty
            ELSE ("product_images" :> unique_images)
                 @@ ("main_image" :> unique_images[1])
                 @@ ("total_images" :> Len(unique_images))))

\* int(text) and float(text) raise ValueError unless the text is a number
IsInt(t) == t # <<>> /\ \A k \in 1..Len(t) : t[k] \in Digits
Dots(t) == {k \in 1..Len(t) : t[k] = "."}
IsFloat(t) ==
    \/ IsInt(t)
    \/ /\ Cardinality(Dots(t)) = 1
       /\ Len(t) > 1
       /\ \A k \in 1..Len(t) : t[k] \in Digits \cup {"."}

\* float(text), in tenths (the first decimal)
ToTenths(t) ==
    IF IsInt(t) THEN 10 * ToInt(t)
    ELSE LET d == CHOOSE k \in Dots(t) : TRUE
         IN  10 * ToInt(SubSeq(t, 1, d - 1))
             + (IF d < Len(t) THEN DigitValue(t[d + 1]) ELSE 0)

\* extract_ratings_reviews for the aggregateRating of the ld+json script
extract_ratings_reviews(page) ==
    LET r == page.details.rating
        a == "average_rating" :> ToTenths(r.ratingValue)
    IN  ExceptLogged(
            IF ~r.present THEN Gathered(Empty)
            ELSE IF ~IsFloat(r.ratingValue) THEN RaisedAfter(Empty)
            ELSE IF ~IsInt(r.reviewCount) THEN RaisedAfter(a)
            ELSE Gathered(("rating_scale" :> "5.0")
                          @@ ("total_reviews" :> ToInt(r.reviewCount)) @@ a))

\* the fields _filter_unwanted_fields removes from every category
UnwantedFields ==
    {"original_price_formatted", "sale_price_formatted", "currency", "current_color",
     "available_sizes", "in_stock_sizes", "out_of_stock_sizes", "total_images",
     "rating_scale"}
_filter_unwanted_fields(category) ==
    [k \in (DOMAIN category) \ UnwantedFields |-> category[k]]

\* extract_basic_info: the keys the orchestrator reads
extract_basic_info(page) ==
    IF page.handle = NoHandle THEN [main_title |-> page.main_title]
    ELSE [main_title |-> page.main_title, product_handle |-> page.handle]

\* a validation that accepts every host
_validate_url_any(url) == TRUE

\* _validate_url
AllowedDomains == {Site, WwwSite}
_validate_url(url) == url[1] \in AllowedDomains

\* load_html for a URL: the validation, then up to max_attempts GETs, of
\* which the first failedAttempts meet a transport error
max_attempts == 3
load_html(url, failedAttempts) ==
    IF ~_validate_url(url)
    THEN [raised |-> TRUE, error |-> "URL must be from thehouseofrare.com domain", gets |-> 0]
    ELSE IF failedAttempts >= max_attempts
    THEN [raised |-> TRUE, error |-> "RequestException", gets |-> max_attempts]
    ELSE [raised |-> FALSE, error |-> "", gets |-> failedAttempts + 1]

\* "time.sleep(2)" between two attempts of load_html, in tenths of a second
retry_sleep == 20

\* _wait_for_dynamic_content: the page is parsed once, so a page with fewer
\* than three of the four key elements is waited for max_retries times,
\* one second each
max_retries == 3
KeyElements(page) ==
    (IF page.details.sizes # <<>> THEN 1 ELSE 0)
    + (IF "fabric" \in DOMAIN page.details.specs THEN 1 ELSE 0)
    + (IF page.wrapper THEN 1 ELSE 0)
    + (IF page.handle # NoHandle THEN 1 ELSE 0)
_wait_for_dynamic_content(page) ==
    IF KeyElements(page) >= 3 THEN 0 ELSE max_retries * 10

\* scrape_all_data: load_html, the six extractors, the filter.  It has no
\* try block of its own: an exception that left an extractor would leave it.
scrape_all_data(url, failedAttempts) ==
    LET h == load_html(url, failedAttempts)
        page == PageOf(url)
        specifications == extract_product_specifications(page)
        size_info == extract_size_availability(page)
        images == extract_product_images(page)
        ratings_info == extract_ratings_reviews(page)
    IN  IF h.raised THEN [raised |-> TRUE, error |-> h.error, gets |-> h.gets, data |-> Empty]
        ELSE IF specifications.raised \/ size_info.raised \/ images.raised
                \/ ratings_info.raised
        THEN [raised |-> TRUE, error |-> "extractor error", gets |-> h.gets, data |-> Empty]
        ELSE [raised |-> FALSE, error |-> "", gets |-> h.gets,
              data |-> [basic_information |->
                            _filter_unwanted_fields(extract_basic_info(page)),
                        pricing_information |->
                            _filter_unwanted_fields(extract_pricing_info(page)),
                        product_specifications |->
                            _filter_unwanted_fields(specifications.gathered),
                        size_and_availability |->
                            _filter_unwanted_fields(size_info.gathered),
                        product_images |-> _filter_unwanted_fields(images.gathered),
                        ratings_and_reviews |->
                            _filter_unwanted_fields(ratings_info.gathered)]]

\* ------------------------------------------ SitemapExtractor.load_sitemap
\* _load_and_parse_sitemap, given what the GET of the child returns
_load_and_parse_sitemap(response) ==
    IF response = TransportFailure THEN [raised |-> TRUE, urls |-> <<>>]
    ELSE _parse_sitemap(response)

\* load_sitemap, given what the GET of the sitemap URL returns and what a
\* GET of a child sitemap returns: whether it raised, the object's
\* sitemap_content and all_urls afterwards, the URLs requested in order and
\* what the GET of the child returned (NoContent if there was none)
load_sitemap(response, childResponse) ==
    IF response = TransportFailure
    THEN [raised |-> TRUE, content |-> NoContent, all_urls |-> <<>>,
          fetched |-> <<SitemapUrl>>, child |-> NoContent]
    ELSE IF _is_sitemap_index(response)
    THEN LET p == _process_sitemap_index(response)
             c == _load_and_parse_sitemap(childResponse)
         IN  IF p.raised
             THEN [raised |-> TRUE, content |-> response, all_urls |-> <<>>,
                   fetched |-> <<SitemapUrl>>, child |-> NoContent]
             ELSE [raised |-> c.raised, content |-> response, all_urls |-> c.urls,
                   fetched |-> <<SitemapUrl, p.product_sitemaps[1]>>,
                   child |-> childResponse]
    ELSE LET r == _parse_sitemap(response)
         IN  [raised |-> r.raised, content |-> response, all_urls |-> r.urls,
              fetched |-> <<SitemapUrl>>, child |-> NoContent]

\* the index documents a child location can serve: _parse_sitemap reads the
\* "url" entries only, so one declared child stands for any number of them
ChildIndexDocs == {Doc("sitemapindex", es) : es \in SeqUpTo(IndexEntries, 1)}

\* the leaf documents a child location can serve to a SitemapExtractor used
\* on its own: their locations differ in what the extractor reads (the
\* '/products/' path, the host, the name after the path)
ChildLeafLocs == {UrlX, UrlBlueShirt, UrlOther, UrlAbout}
ChildLeafDocs ==
    {Doc("urlset", es) :
        es \in SeqUpTo({Entry("url", l) : l \in ChildLeafLocs}, MaxLeafUrls)}

\* what a GET of the chosen child can return; there is none to return when
\* load_sitemap issues no second GET
ChildResponses(response) ==
    IF load_sitemap(response, TransportFailure).fetched = <<SitemapUrl>>
    THEN {TransportFailure}
    ELSE ChildLeafDocs \cup ChildIndexDocs \cup {MalformedDoc, TransportFailure}

\* ------------------------------------------ FastBulkScraper, pure parts
\* the "urls" loop of FastBulkScraper.extract_product_urls
RECURSIVE ProductLinks(_)
ProductLinks(url_data) ==
    IF url_data = <<>> THEN <<>>
    ELSE IF HasProductsPath(Head(url_data).url)
         THEN <<Head(url_data).url>> \o ProductLinks(Tail(url_data))
         ELSE ProductLinks(Tail(url_data))

\* a limit that keeps the last max_urls entries
LimitUrls_tail(urls, max_urls) ==
    IF max_urls # 0 /\ Len(urls) > max_urls
    THEN SubSeq(urls, Len(urls) - max_urls + 1, Len(urls)) ELSE urls

\* "if max_urls and len(urls) > max_urls: urls = urls[:max_urls]";
\* max_urls = 0 stands for the falsy values None and 0
LimitUrls(urls, max_urls) ==
    IF max_urls # 0 /\ Len(urls) > max_urls THEN SubSeq(urls, 1, max_urls) ELSE urls

\* FastBulkScraper.extract_product_urls after extractor.load_sitemap() has
\* returned with the given all_urls: raised, or the list of URLs
FastBulkScraper_extract_product_urls(loaded_urls, url_pattern, max_urls) ==
    LET e == extract_product_urls(loaded_urls, url_pattern)
    IN  IF e.raised THEN [raised |-> TRUE, urls |-> <<>>]
        ELSE [raised |-> FALSE, urls |-> LimitUrls(ProductLinks(e.product_urls), max_urls)]

Get(d, k, default) == IF k \in DOMAIN d THEN d[k] ELSE default

\* _transform_data_schema: the basic and the pricing category
_transform_data_schema(raw_data, url) ==
    [basic_information |->
        [main_title |-> Get(raw_data.basic_information, "main_title", ""),
         url |-> url],
     pricing_information |->
        [original_price |-> Get(raw_data.pricing_information, "original_price", 0),
         sale_price |-> Get(raw_data.pricing_information, "sale_price", 0),
         savings_amount |-> Get(raw_data.pricing_information, "savings_amount", 0)]]

\* file names in the output directory
File(stem, ext) == [stem |-> stem, ext |-> ext]
NoFile == File(Stem("<None>"), "")
combined_json_file == File(Stem("all_products"), "json")
csv_file == File(Stem("all_products"), "csv")
failed_urls_file == File(Stem("failed_urls"), "json")
report_file == File(Stem("scraping_report"), "json")

\* individual_file of item i
individual_file(raw_data, i) ==
    File(Get(raw_data.basic_information, "product_handle", [base |-> "product_", n |-> i]),
         "json")

\* a failure entry that numbers the items from 0
FailureEntry_zero_based(url, e, i) == [url |-> url, error |-> e, index |-> i - 1]

\* the entry appended to failed_urls
FailureEntry(url, e, i) == [url |-> url, error |-> e, index |-> i]

\* a failures file that is written unconditionally
failed_file_always(failed) == failed_urls_file

\* failed_file of _generate_final_files
failed_file(failed) == IF failed # <<>> THEN failed_urls_file ELSE NoFile

\* success_rate computed with the integer division s // t
success_rate_floor(s, t) == (s \div t) * 1000

\* success_rate of the report, f"{s / t * 100:.1f}%", in tenths of a percent
success_rate(s, t) == (2000 * s + t) \div (2 * t)

\* the sleeps, in tenths of a second
delay == 8
SleepAfterSuccess(i, n) == IF i < n THEN <<delay>> ELSE <<>>
\* a recovery sleep as long as the rate-limit sleep
SleepAfterFailure_full(i, n) == <<delay>>

SleepAfterFailure(i, n) == <<delay \div 2>>

\* the files of the output directory: a function from names to contents
NoFiles == [f \in {} |-> "none"]
WriteOutcomes == {"ok", "open_fails", "dump_fails"}

\* open(name, 'w') followed by json.dump / csv writing: a failing open
\* leaves the directory as it is, a failing dump leaves a partial file
WriteFile(fs, name, content, outcome) ==
    CASE outcome = "ok" -> (name :> content) @@ fs
      [] outcome = "dump_fails" -> (name :> "partial") @@ fs
      [] OTHER -> fs

Restrict(fs, names) == [f \in names |-> fs[f]]

\* no check of product_urls
HasUrls_unchecked(urls) == TRUE

\* "if not self.product_urls: raise ValueError"
HasUrls(urls) == urls # <<>>

\* the body of the try block of fast_scrape_products for item i, up to and
\* including the write of the individual file
TryItem(url, i, failedAttempts, persist) ==
    LET r == scrape_all_data(url, failedAttempts)
    IN  IF r.raised
        THEN [ok |-> FALSE, error |-> r.error, cause |-> "fetch", file |-> NoFile,
              raw_data |-> Empty, product_data |-> Empty]
        ELSE [ok |-> persist = "ok",
              error |-> IF persist = "ok" THEN "" ELSE "OSError",
              cause |-> persist,
              file |-> individual_file(r.data, i),
              raw_data |-> r.data,
              product_data |-> _transform_data_schema(r.data, url)]

\* counters that count an item as a success before it is known to be one
CountItem_early(st, ok) ==
    IF ok THEN [st EXCEPT !.successful_scrapes = @ + 1]
    ELSE [st EXCEPT !.successful_scrapes = @ + 1, !.failed_scrapes = @ + 1]

\* the counters after an item: successful_scrapes += 1 at the end of the try
\* block, failed_scrapes += 1 in the except block
CountItem(st, ok) ==
    IF ok THEN [st EXCEPT !.successful_scrapes = @ + 1]
    ELSE [st EXCEPT !.failed_scrapes = @ + 1]

\* a loop that stops at the first failure
NextIndex_break(i, ok) == IF ok THEN i + 1 ELSE i + MaxLeafUrls + 1

\* the for loop goes on to the next item after the try and after the except
NextIndex(i, ok) == i + 1

\* a report whose rate divides by the number of successes
BuildReport_per_success(st, failed, cleaned) ==
    IF st.successful_scrapes = 0 THEN [raised |-> TRUE, report |-> Empty]
    ELSE [raised |-> FALSE,
          report |-> [total_urls |-> st.total_urls,
                      successful_scrapes |-> st.successful_scrapes,
                      failed_scrapes |-> st.failed_scrapes,
                      success_rate |-> success_rate(st.total_urls, st.successful_scrapes),
                      combined_json |-> combined_json_file,
                      combined_csv |-> csv_file,
                      failed_urls |-> failed_file(failed),
                      individual_files_cleaned |-> cleaned]]

\* the report of _generate_final_files; the two divisions by total_urls
\* raise ZeroDivisionError when it is 0
BuildReport(st, failed, cleaned) ==
    IF st.total_urls = 0 THEN [raised |-> TRUE, report |-> Empty]
    ELSE [raised |-> FALSE,
          report |-> [total_urls |-> st.total_urls,
                      successful_scrapes |-> st.successful_scrapes,
                      failed_scrapes |-> st.failed_scrapes,
                      success_rate |-> success_rate(st.successful_scrapes, st.total_urls),
                      combined_json |-> combined_json_file,
                      combined_csv |-> csv_file,
                      failed_urls |-> failed_file(failed),
                      individual_files_cleaned |-> cleaned]]

\* ------------------------------------------------------------ the state
VARIABLES
    \* SitemapExtractor object and the sitemap GETs it issued
    ex_pc, sitemap_content, all_urls, ex_product_urls, fetched, child_content,
    \* the arguments of a running FastBulkScraper.extract_product_urls
    extract_args,
    \* FastBulkScraper object
    product_urls, scraped_data, failed_urls, temp_files, stats,
    \* position in extract_product_urls / fast_scrape_products /
    \* _generate_final_files, loop index, local cleaned_files, return value
    \* and the exception that left the call
    pc, i, cleaned_files, report, error,
    \* the local raw_data of the loop of fast_scrape_products
    raw_data,
    \* the output directory
    dir_exists, files,
    \* history: what happened to each item, the sleeps, the file operations
    outcomes, slept, io_log,
    \* load_html taken request by request: the position in the iteration, the
    \* loop variable attempt, the time slept so far (tenths of a second) and
    \* the GETs issued, each with the item and the time of its start
    fetch_pc, attempt, now, requests

exVars == <<ex_pc, sitemap_content, all_urls, ex_product_urls, fetched, child_content,
            extract_args>>
objVars == <<product_urls, scraped_data, failed_urls, temp_files, stats>>
runVars == <<pc, i, cleaned_files, report, error, raw_data>>
dirVars == <<dir_exists, files>>
histVars == <<outcomes, slept, io_log>>
fetchVars == <<fetch_pc, attempt, now, requests>>
vars == <<exVars, objVars, runVars, dirVars, histVars, fetchVars>>

\* url_pattern and max_urls of extract_product_urls; NoArgs outside a call
Args(url_pattern, max_urls) == [url_pattern |-> url_pattern, max_urls |-> max_urls]
NoArgs == Args("<no call>", 0)

InitStats == [total_urls |-> 0, successful_scrapes |-> 0, failed_scrapes |-> 0,
              start_time |-> FALSE, end_time |-> FALSE]

\* SitemapExtractor.__init__ and FastBulkScraper.__init__, empty directory
Init ==
    /\ ex_pc = "new"
    /\ sitemap_content = NoContent
    /\ all_urls = <<>>
    /\ ex_product_urls = <<>>
    /\ fetched = <<>>
    /\ child_content = NoContent
    /\ extract_args = NoArgs
    /\ product_urls = <<>>
    /\ scraped_data = <<>>
    /\ failed_urls = <<>>
    /\ temp_files = <<>>
    /\ stats = InitStats
    /\ pc = "new"
    /\ i = 0
    /\ cleaned_files = 0
    /\ report = Empty
    /\ error = ""
    /\ raw_data = Empty
    /\ dir_exists = FALSE
    /\ files = NoFiles
    /\ outcomes = <<>>
    /\ slept = <<>>
    /\ io_log = <<>>
    /\ fetch_pc = "idle"
    /\ attempt = 0
    /\ now = 0
    /\ requests = <<>>

\* one entry of the history of file operations
WriteEvent(name, content, len, outcome) ==
    [op |-> "write", file |-> name, content |-> content, len |-> len, outcome |-> outcome]
RemoveEvent(name, outcome) ==
    [op |-> "remove", file |-> name, content |-> "", len |-> 0, outcome |-> outcome]

\* steps 1 to 3 of _generate_final_files: all_products.json, all_products.csv
\* and, if there were failures, failed_urls.json; the write named by failAt
\* fails in the way "how" and its exception leaves the call
GenerateCombined(fs, scraped, failed, failAt, how) ==
    LET o1 == IF failAt = "json" THEN how ELSE "ok"
        o2 == IF failAt = "csv" THEN how ELSE "ok"
        o3 == IF failAt = "failed" THEN how ELSE "ok"
        f1 == WriteFile(fs, combined_json_file, "combined", o1)
        l1 == <<WriteEvent(combined_json_file, "combined", Len(scraped), o1)>>
        f2 == WriteFile(f1, csv_file, "csv", o2)
        l2 == l1 \o <<WriteEvent(csv_file, "csv", Len(scraped), o2)>>
        f3 == IF failed_file(failed) # NoFile
              THEN WriteFile(f2, failed_file(failed), "failed", o3) ELSE f2
        l3 == IF failed_file(failed) # NoFile
              THEN l2 \o <<WriteEvent(failed_file(failed), "failed", Len(failed), o3)>>
              ELSE l2
    IN  IF o1 # "ok" THEN [raised |-> TRUE, error |-> "OSError: all_products.json",
                           files |-> f1, log |-> l1]
        ELSE IF o2 # "ok" THEN [raised |-> TRUE, error |-> "OSError: all_products.csv",
                                files |-> f2, log |-> l2]
        ELSE IF o3 # "ok" /\ failed_file(failed) # NoFile
             THEN [raised |-> TRUE, error |-> "OSError: failed_urls.json",
                   files |-> f3, log |-> l3]
        ELSE [raised |-> FALSE, error |-> "", files |-> f3, log |-> l3]

\* a cleanup loop that ends at the first file it cannot delete
RECURSIVE Cleanup_stop(_, _, _, _, _)
Cleanup_stop(temps, existing, undeletable, cleaned, log) ==
    IF temps = <<>> THEN [names |-> existing, cleaned_files |-> cleaned, log |-> log]
    ELSE IF Head(temps) \notin existing
         THEN Cleanup_stop(Tail(temps), existing, undeletable, cleaned, log)
    ELSE IF Head(temps) \in undeletable
         THEN [names |-> existing, cleaned_files |-> cleaned,
               log |-> Append(log, RemoveEvent(Head(temps), "fails"))]
    ELSE Cleanup_stop(Tail(temps), existing \ {Head(temps)}, undeletable, cleaned + 1,
                      Append(log, RemoveEvent(Head(temps), "ok")))

\* step 4 of _generate_final_files, the loop over temp_files: the names left,
\* the number removed and the calls of os.remove, when os.remove raises for
\* the names in undeletable
RECURSIVE Cleanup(_, _, _, _, _)
Cleanup(temps, existing, undeletable, cleaned, log) ==
    IF temps = <<>> THEN [names |-> existing, cleaned_files |-> cleaned, log |-> log]
    ELSE IF Head(temps) \notin existing
         THEN Cleanup(Tail(temps), existing, undeletable, cleaned, log)
    ELSE IF Head(temps) \in undeletable
         THEN Cleanup(Tail(temps), existing, undeletable, cleaned,
                      Append(log, RemoveEvent(Head(temps), "fails")))
    ELSE Cleanup(Tail(temps), existing \ {Head(temps)}, undeletable, cleaned + 1,
                 Append(log, RemoveEvent(Head(temps), "ok")))

Range(sq) == {sq[k] : k \in 1..Len(sq)}

\* ------------------------------------------- SitemapExtractor, actions
\* extractor.load_sitemap()
LoadSitemap ==
    /\ ex_pc = "new"
    /\ \E response \in SitemapResponses :
       \E childResponse \in ChildResponses(response) :
         LET l == load_sitemap(response, childResponse)
         IN  /\ sitemap_content' = l.content
             /\ all_urls' = l.all_urls
             /\ fetched' = l.fetched
             /\ child_content' = l.child
             /\ ex_pc' = IF l.raised THEN "load_raised" ELSE "loaded"
    /\ UNCHANGED <<fetchVars, ex_product_urls, extract_args, objVars, runVars, dirVars, histVars>>

\* extractor.extract_product_urls(url_pattern), whether or not a sitemap
\* was loaded before
ExtractProductUrls ==
    /\ ex_pc \in {"new", "loaded", "load_raised"}
    /\ \E url_pattern \in UrlPatterns :
         LET e == extract_product_urls(all_urls, url_pattern)
         IN  IF e.raised
             THEN /\ ex_pc' = "extract_raised"
                  /\ UNCHANGED ex_product_urls
             ELSE /\ ex_pc' = "extracted"
                  /\ ex_product_urls' = e.product_urls
    /\ UNCHANGED <<fetchVars, sitemap_content, all_urls, fetched, child_content, extract_args,
                   objVars, runVars, dirVars, histVars>>

\* ------------------------------------------- FastBulkScraper, actions
\* scraper.extract_product_urls(url_pattern, max_urls), first part: the
\* extractor is created and load_sitemap issues the GET of the sitemap URL.
\* Of the local extractor the run keeps what the next step reads: the child
\* still to be fetched, or all_urls.
BulkLoadSitemap ==
    /\ pc = "new"
    /\ \E response \in SitemapResponses, url_pattern \in UrlPatterns,
          max_urls \in 0..MaxLimit :
         LET l == load_sitemap(response, TransportFailure)
         IN  IF Len(l.fetched) = 2
             THEN /\ pc' = "child"
                  /\ fetched' = l.fetched
                  /\ extract_args' = Args(url_pattern, max_urls)
                  /\ UNCHANGED <<all_urls, error>>
             ELSE IF l.raised
             THEN /\ pc' = "extract_raised"
                  /\ error' = "sitemap error"
                  /\ UNCHANGED <<all_urls, fetched, extract_args>>
             ELSE /\ pc' = "loaded"
                  /\ all_urls' = l.all_urls
                  /\ extract_args' = Args(url_pattern, max_urls)
                  /\ UNCHANGED <<fetched, error>>
    /\ UNCHANGED <<fetchVars, ex_pc, sitemap_content, ex_product_urls, child_content, objVars, i,
                   cleaned_files, report, raw_data, dirVars, histVars>>

\* scraper.extract_product_urls, second part: _load_and_parse_sitemap issues
\* the GET of the chosen child
BulkLoadChild ==
    /\ pc = "child"
    /\ \E childResponse \in SitemapResponses :
         LET c == _load_and_parse_sitemap(childResponse)
         IN  IF c.raised
             THEN /\ pc' = "extract_raised"
                  /\ error' = "sitemap error"
                  /\ extract_args' = NoArgs
                  /\ UNCHANGED all_urls
             ELSE /\ pc' = "loaded"
                  /\ all_urls' = c.urls
                  /\ UNCHANGED <<error, extract_args>>
    /\ fetched' = <<>>
    /\ UNCHANGED <<fetchVars, ex_pc, sitemap_content, ex_product_urls, child_content, objVars, i,
                   cleaned_files, report, raw_data, dirVars, histVars>>

\* scraper.extract_product_urls, third part: the product URLs are filtered
\* and limited and stored with their number
BulkExtractProductUrls ==
    /\ pc = "loaded"
    /\ LET r == FastBulkScraper_extract_product_urls(
                    all_urls, extract_args.url_pattern, extract_args.max_urls)
       IN  IF r.raised
           THEN /\ pc' = "extract_raised"
                /\ error' = "sitemap error"
                /\ all_urls' = <<>>
                /\ extract_args' = NoArgs
                /\ UNCHANGED <<product_urls, stats>>
           ELSE /\ pc' = "extracted"
                /\ product_urls' = r.urls
                /\ stats' = [stats EXCEPT !.total_urls = Len(r.urls)]
                /\ UNCHANGED <<error, all_urls, extract_args>>
    /\ UNCHANGED <<fetchVars, ex_pc, sitemap_content, ex_product_urls, fetched, child_content,
                   scraped_data, failed_urls, temp_files, i, cleaned_files, report,
                   raw_data, dirVars, histVars>>

\* scraper.extract_product_urls, last part: "return urls"; the local
\* extractor and the arguments are dropped
BulkReturnUrls ==
    /\ pc = "extracted"
    /\ pc' = "ready"
    /\ all_urls' = <<>>
    /\ extract_args' = NoArgs
    /\ UNCHANGED <<fetchVars, ex_pc, sitemap_content, ex_product_urls, fetched, child_content,
                   objVars, i, cleaned_files, report, raw_data, error, dirVars, histVars>>

\* fast_bulk_scrape: "if not urls: return None"
ReturnNoUrls ==
    /\ pc = "ready"
    /\ product_urls = <<>>
    /\ pc' = "returned_none"
    /\ UNCHANGED <<fetchVars, exVars, objVars, i, cleaned_files, report, raw_data, error, dirVars,
                   histVars>>

\* fast_scrape_products up to the loop: the check of product_urls, mkdir
\* and start_time
EnterScrape ==
    IF ~HasUrls(product_urls)
    THEN /\ pc' = "raised"
         /\ error' = "ValueError: No URLs to scrape"
         /\ UNCHANGED <<stats, i, dir_exists>>
    ELSE \E mkdir_ok \in BOOLEAN :
           IF mkdir_ok
           THEN /\ dir_exists' = TRUE
                /\ stats' = [stats EXCEPT !.start_time = TRUE]
                /\ pc' = "loop"
                /\ i' = 1
                /\ UNCHANGED error
           ELSE /\ pc' = "raised"
                /\ error' = "OSError: mkdir"
                /\ UNCHANGED <<stats, i, dir_exists>>

\* scraper.fast_scrape_products() called on an object for the first time
StartScrape ==
    /\ pc \in {"new", "ready", "extract_raised"}
    /\ EnterScrape
    /\ UNCHANGED <<fetchVars, exVars, product_urls, scraped_data, failed_urls, temp_files,
                   cleaned_files, report, raw_data, files, histVars>>

\* scraper.fast_scrape_products() called once more on the same object after
\* a first call has returned its report: the same code runs on the lists,
\* counters and output directory the first call left
StartScrapeAgain ==
    /\ pc = "done"
    /\ Len(outcomes) = Len(product_urls)
    /\ EnterScrape
    /\ UNCHANGED <<fetchVars, exVars, product_urls, scraped_data, failed_urls, temp_files,
                   cleaned_files, report, raw_data, files, histVars>>

\* the rest of an iteration of the for loop of fast_scrape_products once the
\* try block has ended as t says: the success branch or the except branch
ItemEffects(url, t) ==
    LET n == Len(product_urls)
    IN  /\ IF t.ok
           THEN /\ files' = WriteFile(files, t.file, "item", "ok")
                /\ io_log' = Append(io_log, WriteEvent(t.file, "item", 1, "ok"))
                /\ temp_files' = Append(temp_files, t.file)
                /\ scraped_data' = Append(scraped_data, t.product_data)
                /\ stats' = CountItem(stats, TRUE)
                /\ slept' = slept \o SleepAfterSuccess(i, n)
                /\ outcomes' = Append(outcomes, "ok")
                /\ UNCHANGED failed_urls
           ELSE /\ files' = IF t.cause = "fetch" THEN files
                            ELSE WriteFile(files, t.file, "item", t.cause)
                /\ io_log' = IF t.cause = "fetch" THEN io_log
                             ELSE Append(io_log, WriteEvent(t.file, "item", 1, t.cause))
                /\ failed_urls' = Append(failed_urls, FailureEntry(url, t.error, i))
                /\ stats' = CountItem(stats, FALSE)
                /\ slept' = slept \o SleepAfterFailure(i, n)
                /\ outcomes' = Append(outcomes, t.cause)
                /\ UNCHANGED <<temp_files, scraped_data>>
        /\ raw_data' = IF t.cause = "fetch" THEN raw_data ELSE t.raw_data
        /\ i' = NextIndex(i, t.ok)

\* one iteration of the for loop of fast_scrape_products
ScrapeItem ==
    /\ pc = "loop"
    /\ i <= Len(product_urls)
    /\ \E failedAttempts \in 0..max_attempts, persist \in WriteOutcomes :
         ItemEffects(product_urls[i],
                     TryItem(product_urls[i], i, failedAttempts, persist))
    /\ UNCHANGED <<fetchVars, exVars, product_urls, pc, cleaned_files, report, error,
                   dir_exists>>

\* the end of the loop, end_time, and steps 1 to 3 of _generate_final_files
WriteCombined ==
    /\ pc = "loop"
    /\ i > Len(product_urls)
    /\ \E failAt \in {"none", "json", "csv", "failed"}, how \in {"open_fails", "dump_fails"} :
         LET g == GenerateCombined(files, scraped_data, failed_urls, failAt, how)
         IN  /\ failAt = "none" => how = "open_fails"
             /\ failAt = "failed" => failed_urls # <<>>
             /\ files' = g.files
             /\ io_log' = io_log \o g.log
             /\ pc' = IF g.raised THEN "raised" ELSE "cleanup"
             /\ error' = g.error
    /\ stats' = [stats EXCEPT !.end_time = TRUE]
    /\ UNCHANGED <<fetchVars, exVars, product_urls, scraped_data, failed_urls, temp_files, i,
                   cleaned_files, report, raw_data, dir_exists, outcomes, slept>>

\* step 4 of _generate_final_files
CleanupTempFiles ==
    /\ pc = "cleanup"
    /\ \E undeletable \in SUBSET Range(temp_files) :
         LET c == Cleanup(temp_files, DOMAIN files, undeletable, 0, <<>>)
         IN  /\ files' = Restrict(files, c.names)
             /\ cleaned_files' = c.cleaned_files
             /\ io_log' = io_log \o c.log
    /\ pc' = "report"
    /\ UNCHANGED <<fetchVars, exVars, objVars, i, report, raw_data, error, dir_exists,
                   outcomes, slept>>

\* the report of _generate_final_files, its file and the return
WriteReport ==
    /\ pc = "report"
    /\ LET b == BuildReport(stats, failed_urls, cleaned_files)
       IN  IF b.raised
           THEN /\ pc' = "raised"
                /\ error' = "ZeroDivisionError"
                /\ UNCHANGED <<report, files, io_log>>
           ELSE \E outcome \in WriteOutcomes :
                  /\ files' = WriteFile(files, report_file, "report", outcome)
                  /\ io_log' = Append(io_log, WriteEvent(report_file, "report", 1, outcome))
                  /\ IF outcome = "ok"
                     THEN /\ pc' = "done"
                          /\ report' = b.report
                          /\ UNCHANGED error
                     ELSE /\ pc' = "raised"
                          /\ error' = "OSError: scraping_report.json"
                          /\ UNCHANGED report
    /\ UNCHANGED <<fetchVars, exVars, objVars, i, cleaned_files, raw_data, dir_exists, outcomes,
                   slept>>

\* ------------------------- the loop of fast_scrape_products, by request
\* the product URLs an extraction can have left in the object
FetchUrls == {UrlX, UrlFailedUrls, UrlOther}

\* a FastBulkScraper after extract_product_urls has returned
InitFetch ==
    /\ ex_pc = "new"
    /\ sitemap_content = NoContent
    /\ all_urls = <<>>
    /\ ex_product_urls = <<>>
    /\ fetched = <<>>
    /\ child_content = NoContent
    /\ extract_args = NoArgs
    /\ product_urls \in SeqUpTo(FetchUrls, MaxLeafUrls) \ {<<>>}
    /\ scraped_data = <<>>
    /\ failed_urls = <<>>
    /\ temp_files = <<>>
    /\ stats = [InitStats EXCEPT !.total_urls = Len(product_urls)]
    /\ pc = "ready"
    /\ i = 0
    /\ cleaned_files = 0
    /\ report = Empty
    /\ error = ""
    /\ raw_data = Empty
    /\ dir_exists = FALSE
    /\ files = NoFiles
    /\ outcomes = <<>>
    /\ slept = <<>>
    /\ io_log = <<>>
    /\ fetch_pc = "idle"
    /\ attempt = 0
    /\ now = 0
    /\ requests = <<>>

\* the time an iteration sleeps after its try block has ended as t says
SleepTime(t, n) ==
    LET sleeps == IF t.ok THEN SleepAfterSuccess(i, n) ELSE SleepAfterFailure(i, n)
    IN  IF sleeps = <<>> THEN 0 ELSE sleeps[1]

GetEvent(item, time) == [index |-> item, time |-> time]

\* the start of an iteration: ProductScraper(url), scrape_all_data, load_html
\* up to the retry loop.  A URL that fails _validate_url raises before any
\* request, and the except branch of the iteration follows.
LoadHtmlValidate ==
    /\ pc = "loop"
    /\ i <= Len(product_urls)
    /\ fetch_pc = "idle"
    /\ LET url == product_urls[i]
           t == TryItem(url, i, 0, "ok")
       IN  IF _validate_url(url)
           THEN /\ fetch_pc' = "get"
                /\ attempt' = 0
                /\ UNCHANGED <<now, objVars, i, raw_data, files, histVars>>
           ELSE /\ ItemEffects(url, t)
                /\ now' = now + SleepTime(t, Len(product_urls))
                /\ UNCHANGED <<fetch_pc, attempt>>
    /\ UNCHANGED <<requests, exVars, product_urls, pc, cleaned_files, report, error,
                   dir_exists>>

\* one pass of "for attempt in range(max_attempts)": the GET, and then the
\* break and _wait_for_dynamic_content, or the sleep before the next
\* attempt, or after the last attempt the raise and the except branch of
\* the iteration
LoadHtmlGet ==
    /\ pc = "loop"
    /\ fetch_pc = "get"
    /\ requests' = Append(requests, GetEvent(i, now))
    /\ \E transport_ok \in BOOLEAN :
         LET url == product_urls[i]
             t == TryItem(url, i, max_attempts, "ok")
         IN  IF transport_ok
             THEN /\ fetch_pc' = "extract"
                  /\ now' = now + _wait_for_dynamic_content(PageOf(url))
                  /\ UNCHANGED <<attempt, objVars, i, raw_data, files, histVars>>
             ELSE IF attempt < max_attempts - 1
             THEN /\ attempt' = attempt + 1
                  /\ now' = now + retry_sleep
                  /\ UNCHANGED <<fetch_pc, objVars, i, raw_data, files, histVars>>
             ELSE /\ ItemEffects(url, t)
                  /\ now' = now + SleepTime(t, Len(product_urls))
                  /\ fetch_pc' = "idle"
                  /\ attempt' = 0
    /\ UNCHANGED <<exVars, product_urls, pc, cleaned_files, report, error, dir_exists>>

\* the rest of the try block after load_html has returned: the extractors,
\* the transformation and the write of the item's file, and then the
\* success branch or the except branch of the iteration
ExtractAndPersist ==
    /\ pc = "loop"
    /\ fetch_pc = "extract"
    /\ \E persist \in WriteOutcomes :
         LET url == product_urls[i]
             t == TryItem(url, i, attempt, persist)
         IN  /\ ItemEffects(url, t)
             /\ now' = now + SleepTime(t, Len(product_urls))
    /\ fetch_pc' = "idle"
    /\ attempt' = 0
    /\ UNCHANGED <<requests, exVars, product_urls, pc, cleaned_files, report, error,
                   dir_exists>>

\* ------------------------------------------------- the specifications
\* a bulk run on a fresh FastBulkScraper
Next ==
    \/ BulkLoadSitemap
    \/ BulkLoadChild
    \/ BulkExtractProductUrls
    \/ BulkReturnUrls
    \/ ReturnNoUrls
    \/ StartScrape
    \/ ScrapeItem
    \/ WriteCombined
    \/ CleanupTempFiles
    \/ WriteReport

Spec == Init /\ [][Next]_vars

\* a FastBulkScraper on which fast_scrape_products is called twice
NextRerun ==
    \/ StartScrape
    \/ ScrapeItem
    \/ WriteCombined
    \/ CleanupTempFiles
    \/ WriteReport
    \/ StartScrapeAgain

\* the objects the second call is studied on: at most MaxRerunUrls product
\* URLs, of a page that can be scraped and of a URL that always fails
RerunUrls == {UrlX, UrlOther}
InitRerun ==
    /\ InitFetch
    /\ Len(product_urls) <= MaxRerunUrls
    /\ Range(product_urls) \subseteq RerunUrls

SpecRerun == InitRerun /\ [][NextRerun]_vars

\* a SitemapExtractor and a newly constructed FastBulkScraper, each usable
\* without the step that is to come first
NextProtocol ==
    \/ LoadSitemap
    \/ ExtractProductUrls
    \/ StartScrape

SpecProtocol == Init /\ [][NextProtocol]_vars

\* a SitemapExtractor used on its own
NextSitemap ==
    \/ LoadSitemap
    \/ ExtractProductUrls

SpecSitemap == Init /\ [][NextSitemap]_vars

\* the loop of fast_scrape_products with load_html taken request by request
NextFetch ==
    \/ StartScrape
    \/ LoadHtmlValidate
    \/ LoadHtmlGet
    \/ ExtractAndPersist

SpecFetch == InitFetch /\ [][NextFetch]_vars

\* ---------------------------------------------------------- properties
\* N, the number of URLs of the run, and K, the number of them that failed
N == Len(product_urls)
K == Cardinality({j \in 1..Len(outcomes) : outcomes[j] # "ok"})

Events(content) == {e \in Range(io_log) : e.op = "write" /\ e.content = content}

\* C1: when a bulk run over N URLs of which K failed has returned, the list
\* written to all_products.json has N-K records, the list written to
\* failed_urls.json (K > 0) has K entries, and the success rate of the
\* report is (N-K)/N, to the nearest tenth of a percent.
C1_Completeness ==
    pc = "done" =>
        /\ Len(outcomes) = N
        /\ Events("combined") # {}
        /\ \A e \in Events("combined") : e.file = combined_json_file /\ e.len = N - K
        /\ K > 0 => Events("failed") # {}
        /\ \A e \in Events("failed") : e.file = failed_urls_file /\ e.len = K
        /\ 2 * (report.success_rate * N - 1000 * (N - K)) <= N
        /\ 2 * (1000 * (N - K) - report.success_rate * N) <= N

C1_Witness == pc = "done" /\ N = 3 /\ K = 1

\* C2: each failure of an item is recorded with the item's URL, its error
\* text and its position, and every position after a failed one is still
\* attempted: the loop attempts the positions one by one and leaves only
\* when all N were attempted.
C2_FailureIsolated ==
    /\ \A j \in 1..Len(outcomes) :
         outcomes[j] # "ok" =>
            \E k \in 1..Len(failed_urls) :
                /\ failed_urls[k].index = j
                /\ failed_urls[k].url = product_urls[j]
                /\ failed_urls[k].error # ""
    /\ pc = "loop" => i = Len(outcomes) + 1
    /\ dir_exists /\ pc # "loop" => Len(outcomes) = N

C2_Witness ==
    /\ pc = "cleanup"
    /\ N = 3
    /\ outcomes[1] # "ok"
    /\ outcomes[2] = "ok"
    /\ outcomes[3] # "ok"

IOErrors == {"OSError: all_products.json", "OSError: all_products.csv",
             "OSError: failed_urls.json", "OSError: scraping_report.json"}

Returned ==
    /\ \E e \in Events("combined") : e.outcome = "ok"
    /\ \E e \in Events("csv") : e.outcome = "ok"
    /\ \E e \in Events("report") : e.outcome = "ok"
    /\ report # Empty

\* C3 as stated: a run that passed the validation returns after writing the
\* three files, and fast_scrape_products raises only for empty input or for
\* an I/O error while writing the combined files or the report.
C3_Original ==
    /\ pc = "done" => Returned
    /\ pc = "raised" => error \in {"ValueError: No URLs to scrape"} \cup IOErrors

\* C3 amended: fast_scrape_products raises only for empty input, for a
\* failure to create the output directory, or for an I/O error while
\* writing the combined files or the report; otherwise it returns after
\* writing the three files, however many items failed.
C3_Amended ==
    /\ pc = "done" => Returned
    /\ pc = "raised" =>
         error \in {"ValueError: No URLs to scrape", "OSError: mkdir"} \cup IOErrors

C3_Witness == pc = "done" /\ N = 2 /\ K = 2 /\ Returned

\* C4 as stated: after the run has returned, the output directory holds no
\* per-item file, only all_products.json, all_products.csv,
\* scraping_report.json and, if an item failed, failed_urls.json.
C4_CleanupGuarantee ==
    pc = "done" =>
        /\ DOMAIN files \subseteq
             {combined_json_file, csv_file, report_file, failed_urls_file}
        /\ failed_urls_file \in DOMAIN files => K > 0
        /\ \A f \in DOMAIN files : files[f] \notin {"item", "partial"}

C6_EmptyInputRaisesFirst ==
    /\ product_urls = <<>> =>
         /\ pc \in {"new", "child", "loaded", "extracted", "ready", "extract_raised",
                    "returned_none", "raised"}
         /\ pc = "raised" => error = "ValueError: No URLs to scrape"
    /\ pc = "raised" /\ error = "ValueError: No URLs to scrape" =>
         /\ product_urls = <<>>
         /\ ~dir_exists
         /\ files = NoFiles
         /\ io_log = <<>>
         /\ outcomes = <<>>
         /\ slept = <<>>
         /\ scraped_data = <<>> /\ failed_urls = <<>> /\ temp_files = <<>>
         /\ stats = InitStats

C6_Witness ==
    pc = "raised" /\ error = "ValueError: No URLs to scrape" /\ product_urls = <<>>

\* the child locations of the loaded index and those with a product token
IndexLocs == LocsOf(sitemap_content.entries, "sitemap")
ProductPositions == {k \in 1..Len(IndexLocs) : ContainsProduct(IndexLocs[k])}

\* C7: after load_sitemap on an index in which exactly one child location
\* contains a product token, the GETs issued are the sitemap URL and that
\* child, and no other child.
C7_OnlyProductChildFetched ==
    /\ ex_pc # "new"
    /\ _is_sitemap_index(sitemap_content)
    /\ Cardinality(ProductPositions) = 1
    => \A k \in ProductPositions : fetched = <<SitemapUrl, IndexLocs[k]>>

C7_Witness ==
    /\ ex_pc = "loaded"
    /\ IndexLocs = <<LocPages, LocProducts2, LocBlogs>>
    /\ fetched = <<SitemapUrl, LocProducts2>>
    /\ all_urls # <<>>

\* C8 as stated: every URL of the product-URL result has the host of the
\* sitemap it was read from.
C8_SameHost ==
    \A k \in 1..Len(ex_product_urls) :
        ex_product_urls[k].url[1] = fetched[Len(fetched)][1]

\* str.lower() and the replacement of hyphens by spaces
SpaceNormalized(t) == IF t = "blue-shirt" THEN "blue shirt" ELSE t

ProductShape(url) == Len(url) = 3 /\ url[2] = "products"

\* C9 as stated: through an index, the result is the leaf URLs of shape
\* .../products/x, in document order, each with the name x, space-normalized.
C9_NamesNormalized ==
    ex_pc = "extracted" /\ Len(fetched) = 2 =>
        /\ \E p \in UrlPatterns :
             [k \in 1..Len(ex_product_urls) |-> ex_product_urls[k].url]
                = SelectSeq(all_urls, LAMBDA u : ProductShape(u)
                                         /\ (p = NoPattern \/ re_search(p, u)))
        /\ \A k \in 1..Len(ex_product_urls) :
             ex_product_urls[k].product_name
                = <<SpaceNormalized(ex_product_urls[k].url[3])>>

\* C10 as stated: in every record the run emits, savings_amount is
\* original_price minus sale_price.
C10_SavingsInvariant ==
    \A k \in 1..Len(scraped_data) :
        LET p == scraped_data[k].pricing_information
        IN  p.savings_amount = p.original_price - p.sale_price

\* C11: when the document fetched from the sitemap URL, or the one fetched
\* from the chosen child, is malformed XML, load_sitemap raises and the
\* object holds no URL list (and a later extraction raises as well).
C11_MalformedRaises ==
    (sitemap_content = MalformedDoc \/ child_content = MalformedDoc) =>
        /\ ex_pc \in {"load_raised", "extract_raised"}
        /\ all_urls = <<>>
        /\ ex_product_urls = <<>>

C11_Witness ==
    /\ ex_pc = "load_raised"
    /\ fetched = <<SitemapUrl, LocProducts1>>
    /\ child_content = MalformedDoc

\* C12 as stated: load_sitemap on an index that declares no child location
\* does not raise; it completes with an empty URL list.
C12_EmptyIndexNoRaise ==
    (ex_pc # "new" /\ _is_sitemap_index(sitemap_content) /\ IndexLocs = <<>>) =>
        /\ ex_pc # "load_raised"
        /\ all_urls = <<>>

\* C13 as stated: after a leaf sitemap without url entries was loaded,
\* extract_product_urls returns an empty list instead of raising.
C13_EmptyLeafNoRaise ==
    /\ sitemap_content.wellFormed
    /\ ~_is_sitemap_index(sitemap_content)
    /\ LocsOf(sitemap_content.entries, "url") = <<>>
    /\ ex_pc \notin {"new", "loaded"}
    => ex_pc = "extracted" /\ ex_product_urls = <<>>

\* C17 as stated: a transport failure reaches the caller of load_sitemap
\* only after the failing URL was requested three times.
C17_SitemapFetchRetried ==
    ex_pc = "load_raised" =>
        /\ sitemap_content = NoContent =>
              fetched = <<SitemapUrl, SitemapUrl, SitemapUrl>>
        /\ child_content = TransportFailure =>
              /\ Len(fetched) = 4
              /\ fetched[2] = fetched[3] /\ fetched[3] = fetched[4]

\* the child an index resolution is to fetch: the first declared location
\* with a product token or, if there is none, the first declared location
FirstProductPosition == CHOOSE k \in ProductPositions : \A j \in ProductPositions : k <= j
ChosenChild ==
    IF ProductPositions # {} THEN IndexLocs[FirstProductPosition] ELSE IndexLocs[1]

\* C20: after load_sitemap on an index that declares child locations, the
\* GETs issued are the sitemap URL and exactly one child: the first location
\* with a product token or, if no location has one, the first location.
C20_ExactlyOneChild ==
    (ex_pc # "new" /\ _is_sitemap_index(sitemap_content) /\ IndexLocs # <<>>) =>
        fetched = <<SitemapUrl, ChosenChild>>

C20_Witness ==
    /\ ex_pc = "loaded"
    /\ IndexLocs = <<LocBlogs, LocPages>>
    /\ fetched = <<SitemapUrl, LocBlogs>>
    /\ all_urls # <<>>

\* the product URLs of the loaded sitemap that pass the pattern of the call
Unrestricted ==
    SelectSeq(all_urls, LAMBDA u : HasProductsPath(u)
                          /\ (extract_args.url_pattern = NoPattern
                              \/ re_search(extract_args.url_pattern, u)))

\* C19: when FastBulkScraper.extract_product_urls is about to return and
\* max_urls >= 1 was given, product_urls is the prefix of length
\* min(max_urls, n) of the n unrestricted product URLs; and total_urls is
\* always the length of product_urls.
C19_LimitIsPrefix ==
    /\ pc = "extracted" /\ extract_args.max_urls >= 1 =>
         LET n == Len(Unrestricted)
             m == extract_args.max_urls
         IN  /\ Len(product_urls) = IF m < n THEN m ELSE n
             /\ \A k \in 1..Len(product_urls) : product_urls[k] = Unrestricted[k]
    /\ stats.total_urls = Len(product_urls)

C19_Witness ==
    /\ pc = "extracted"
    /\ extract_args.max_urls = 2
    /\ Len(Unrestricted) = 3
    /\ product_urls = <<Unrestricted[1], Unrestricted[2]>>
    /\ Unrestricted[3] # Unrestricted[2]

\* the categories of a record of scrape_all_data
Categories ==
    {"basic_information", "pricing_information", "product_specifications",
     "size_and_availability", "product_images", "ratings_and_reviews"}

\* the item whose record raw_data holds: the last one whose scrape_all_data
\* returned
LastScraped ==
    CHOOSE j \in 0..Len(outcomes) :
        /\ j > 0 => outcomes[j] # "fetch"
        /\ \A k \in (j + 1)..Len(outcomes) : outcomes[k] = "fetch"

\* what the specification, size and image extractors give for the shirt
\* pages, after the filter
ShirtSpecifications == [n \in {"fabric", "pattern"} |-> IF n = "fabric" THEN "Cotton" ELSE "SOLID"]
ShirtSizes == "size_availability" :> [v \in {"S", "M"} |-> v = "S"]
ShirtImages ==
    [n \in {"product_images", "main_image"} |->
        IF n = "main_image" THEN "cdn/shirt_1.jpg"
        ELSE <<"cdn/shirt_1.jpg", "cdn/shirt_2.jpg">>]

\* C18: no item fails because of an extractor: the failures of a run are
\* those of load_html and of the write of the item's file.  A record of
\* scrape_all_data has the six categories; on the page whose review count
\* is not an integer the rating category holds the average gathered before
\* the error, on the page whose compare price and rating value do not
\* convert the pricing and rating categories are empty, and on both the
\* other categories are those of the page without an error.
C18_ExtractorFailureKeepsRecord ==
    /\ \A k \in 1..Len(failed_urls) :
         failed_urls[k].error \in
            {"URL must be from thehouseofrare.com domain", "RequestException", "OSError"}
    /\ LastScraped > 0 =>
         /\ DOMAIN raw_data = Categories
         /\ product_urls[LastScraped] \in {UrlX, UrlBlueShirt, UrlAllProducts} =>
              /\ raw_data.product_specifications = ShirtSpecifications
              /\ raw_data.size_and_availability = ShirtSizes
              /\ raw_data.product_images = ShirtImages
         /\ product_urls[LastScraped] = UrlX =>
              /\ raw_data.ratings_and_reviews
                    = [n \in {"average_rating", "total_reviews"} |->
                          IF n = "average_rating" THEN 45 ELSE 12]
              /\ raw_data.pricing_information
                    = [n \in {"original_price", "sale_price", "savings_amount"} |->
                          CASE n = "original_price" -> 1999
                            [] n = "sale_price" -> 1499
                            [] OTHER -> 500]
         /\ product_urls[LastScraped] = UrlBlueShirt =>
              /\ raw_data.ratings_and_reviews = "average_rating" :> 45
              /\ raw_data.pricing_information = "original_price" :> 1999
              /\ raw_data.basic_information = "main_title" :> "Blue Shirt"
         /\ product_urls[LastScraped] = UrlAllProducts =>
              /\ raw_data.ratings_and_reviews = Empty
              /\ raw_data.pricing_information = Empty
              /\ raw_data.basic_information
                    = [n \in {"main_title", "product_handle"} |->
                          IF n = "main_title" THEN "" ELSE Stem("all_products")]

C18_Witness ==
    /\ pc = "loop"
    /\ Len(outcomes) = 2
    /\ product_urls = <<UrlAllProducts, UrlBlueShirt>>
    /\ outcomes = <<"ok", "ok">>
    /\ raw_data.ratings_and_reviews = "average_rating" :> 45

\* the GETs issued for item j
RequestsOf(j) == {k \in 1..Len(requests) : requests[k].index = j}

OffList(url) == url[1] \notin {"thehouseofrare.com", "www.thehouseofrare.com"}

\* C14: for an item whose host is not on the allow list no GET is ever
\* issued, and once the item was attempted it is a failure entry with the
\* invalid-domain error.
C14_InvalidDomainNoRequest ==
    \A j \in 1..Len(product_urls) :
        OffList(product_urls[j]) =>
            /\ RequestsOf(j) = {}
            /\ j <= Len(outcomes) =>
                 /\ outcomes[j] = "fetch"
                 /\ \E k \in 1..Len(failed_urls) :
                      failed_urls[k]
                        = [url |-> product_urls[j],
                           error |-> "URL must be from thehouseofrare.com domain",
                           index |-> j]

C14_Witness ==
    /\ product_urls = <<UrlX, UrlOther, UrlX>>
    /\ Len(outcomes) = 3
    /\ outcomes[2] = "fetch"
    /\ RequestsOf(2) = {}
    /\ RequestsOf(1) # {} /\ RequestsOf(3) # {}

\* C15 as stated: between the starts of two consecutive product-page GETs
\* of a run at least self.delay elapses.
C15_MinimumSpacing ==
    \A k \in 1..(Len(requests) - 1) :
        requests[k + 1].time - requests[k].time >= delay

\* C16 as stated: for every allow-listed URL that was attempted exactly one
\* GET was issued.
C16_SingleAttempt ==
    \A j \in 1..Len(outcomes) :
        ~OffList(product_urls[j]) => Cardinality(RequestsOf(j)) = 1

\* C21 as stated: when the child chosen from an index is itself an index
\* that declares a location, load_sitemap resolves it in turn: a further
\* sitemap is requested, and the load does not end with the object holding
\* no page location.
C21_RecursiveResolution ==
    /\ ex_pc = "loaded"
    /\ _is_sitemap_index(child_content)
    /\ LocsOf(child_content.entries, "sitemap") # <<>>
    => Len(fetched) >= 3 /\ all_urls # <<>>

\* the document load_sitemap handed to _parse_sitemap: the chosen child of
\* an index, else the document of the sitemap URL
Parsed == IF Len(fetched) = 2 THEN child_content ELSE sitemap_content

\* the positions of the url entries of a document that carry a location
LocatedUrlEntries(content) ==
    {k \in 1..Len(content.entries) :
        content.entries[k].tag = "url" /\ content.entries[k].hasLoc}

\* C22: after a load that did not raise, all_urls has one element per url
\* entry with a location in the parsed document, and element k is the
\* location of the k-th such entry (document order, duplicates kept).
C22_FlatInDocumentOrder ==
    ex_pc \in {"loaded", "extracted", "extract_raised"} /\ Parsed.wellFormed =>
        LET P == LocatedUrlEntries(Parsed)
        IN  /\ Len(all_urls) = Cardinality(P)
            /\ \A p \in P :
                 all_urls[Cardinality({q \in P : q <= p})] = Parsed.entries[p].loc

C22_Witness ==
    /\ ex_pc = "loaded"
    /\ sitemap_content
         = Doc("urlset", <<Entry("url", UrlX), NoLocEntry("url"), Entry("url", UrlX)>>)
    /\ all_urls = <<UrlX, UrlX>>

\* C23 as stated: once k items of the N of a run were processed the loop
\* has slept k times while k < N, and N - 1 times when k = N, whether the
\* last item succeeded or failed.
C23_NoSleepAfterLast ==
    LET k == Len(outcomes)
        n == Len(product_urls)
    IN  k >= 1 => Len(slept) = (IF k < n THEN k ELSE n - 1)

\* C24: the step that processes an item makes at most one sleep, of the
\* full delay when the item succeeded and of half the delay when it failed.
C24_SleepMatchesOutcome ==
    [][Len(outcomes') = Len(outcomes) + 1 =>
         \/ slept' = slept
         \/ /\ outcomes'[Len(outcomes')] = "ok"
            /\ slept' = Append(slept, delay)
         \/ /\ outcomes'[Len(outcomes')] # "ok"
            /\ 2 * slept'[Len(slept')] = delay
            /\ slept' = Append(slept, slept'[Len(slept')])]_vars

C24_Witness ==
    /\ Len(product_urls) = 3
    /\ outcomes = <<"ok", "fetch">>
    /\ slept = <<delay, 4>>

\* the positions of io_log with a successful write of the given content
WrittenAt(content) ==
    {k \in 1..Len(io_log) :
        /\ io_log[k].op = "write"
        /\ io_log[k].content = content
        /\ io_log[k].outcome = "ok"}

Removals == {k \in 1..Len(io_log) : io_log[k].op = "remove"}

\* C25: every call of os.remove comes after the successful writes of
\* all_products.json, all_products.csv and, if there were failures,
\* failed_urls.json; once cleanup has run, os.remove was called for every
\* per-item file, whatever removals failed before it; and after a failed
\* removal the run goes on to the report, leaving only through the write
\* of the report.
C25_CleanupAfterCombined ==
    /\ \A r \in Removals :
         /\ \E w \in WrittenAt("combined") : w < r /\ io_log[w].file = combined_json_file
         /\ \E w \in WrittenAt("csv") : w < r /\ io_log[w].file = csv_file
         /\ failed_urls # <<>> =>
              \E w \in WrittenAt("failed") : w < r /\ io_log[w].file = failed_urls_file
    /\ (pc \in {"report", "done"} \/ error = "OSError: scraping_report.json") =>
         \A j \in 1..Len(temp_files) :
             \E r \in Removals : io_log[r].file = temp_files[j]
    /\ (\E r \in Removals : io_log[r].outcome = "fails") =>
         \/ pc = "report"
         \/ pc = "done" /\ report # <<>> /\ report_file \in DOMAIN files
         \/ pc = "raised" /\ error = "OSError: scraping_report.json"

C25_Witness ==
    /\ pc = "done"
    /\ report_file \in DOMAIN files
    /\ \E r1, r2 \in Removals :
         /\ r1 < r2
         /\ io_log[r1].outcome = "fails"
         /\ io_log[r2].outcome = "ok"

\* C26: once k items were processed the two counters add up to k, the
\* lists scraped_data and temp_files have one element per success and
\* failed_urls one per failure; while the loop runs the next item is k + 1,
\* and after the loop the counters add up to total_urls.
C26_CountersMatchLists ==
    pc \in {"loop", "cleanup", "report", "done"} =>
        LET k == Len(outcomes)
        IN  /\ stats.successful_scrapes + stats.failed_scrapes = k
            /\ Len(scraped_data) = stats.successful_scrapes
            /\ Len(temp_files) = stats.successful_scrapes
            /\ Len(failed_urls) = stats.failed_scrapes
            /\ pc = "loop" => i = k + 1
            /\ pc # "loop" =>
                 stats.successful_scrapes + stats.failed_scrapes = stats.total_urls

C26_Witness ==
    /\ pc = "loop"
    /\ i = 3
    /\ Len(product_urls) = 3
    /\ stats.successful_scrapes = 1
    /\ stats.failed_scrapes = 1

\* C27 as stated: when fast_scrape_products has returned, all_products.json
\* exists with the combined content and, if there were failures,
\* failed_urls.json exists with the failure list.
C27_CombinedSurviveCleanup ==
    pc = "done" =>
        /\ combined_json_file \in DOMAIN files
        /\ files[combined_json_file] = "combined"
        /\ failed_urls # <<>> =>
             /\ failed_urls_file \in DOMAIN files
             /\ files[failed_urls_file] = "failed"

\* C28 as stated: when the second call of fast_scrape_products on an object
\* has returned, its report counts the items of that call only, so
\* successful_scrapes + failed_scrapes = total_urls, and the lists written
\* to all_products.json and failed_urls.json hold one entry per item of
\* that call.
C28_SecondRunOwnOutcomes ==
    pc = "done" /\ Len(outcomes) = 2 * Len(product_urls) =>
        /\ report.successful_scrapes + report.failed_scrapes = report.total_urls
        /\ Len(scraped_data) + Len(failed_urls) = Len(product_urls)

\* a step of the extractor that is neither a load nor a stutter, taken
\* while no load has succeeded: it raises and returns no product list
ExtractBeforeLoad ==
    ex_pc \in {"new", "load_raised"} /\ ex_pc' \notin {ex_pc, "loaded", "load_raised"} =>
        (ex_pc' = "extract_raised" /\ UNCHANGED <<all_urls, ex_product_urls>>)

\* a step of a new FastBulkScraper: it raises and changes no list or counter
ScrapeBeforeExtract ==
    pc = "new" /\ pc' # pc =>
        (/\ pc' = "raised"
         /\ error' = "ValueError: No URLs to scrape"
         /\ UNCHANGED <<product_urls, scraped_data, failed_urls, stats>>)

\* C29: an extraction called on a SitemapExtractor that holds no loaded URL
\* list (never loaded, or the load raised) raises and returns no product
\* list; a load that raised leaves all_urls empty; and fast_scrape_products
\* called on a FastBulkScraper without extracted URLs raises ValueError and
\* leaves product_urls, scraped_data, failed_urls and stats as they were.
C29_ProtocolEnforced ==
    /\ [](ex_pc = "load_raised" => all_urls = <<>>)
    /\ [][ExtractBeforeLoad]_vars
    /\ [][ScrapeBeforeExtract]_vars

C29_Witness ==
    /\ ex_pc = "extract_raised"
    /\ sitemap_content = MalformedDoc
    /\ pc = "raised"
    /\ error = "ValueError: No URLs to scrape"

\* the input positions recorded in failed_urls, and the processed positions
\* that are not
FailedPositions == {failed_urls[m].index : m \in 1..Len(failed_urls)}
SucceededPositions == (1..Len(outcomes)) \ FailedPositions

\* C30: once k items were processed, the index values of failed_urls are
\* strictly increasing positions among 1..k whose URL is the entry's url,
\* and scraped_data holds, in input order, one record for each of the other
\* positions among 1..k, carrying that position's URL.
C30_OutcomesPartitionInput ==
    /\ \A m \in 1..Len(failed_urls) :
         /\ failed_urls[m].index \in 1..Len(outcomes)
         /\ product_urls[failed_urls[m].index] = failed_urls[m].url
         /\ m > 1 => failed_urls[m - 1].index < failed_urls[m].index
    /\ Len(scraped_data) = Cardinality(SucceededPositions)
    /\ \A p \in SucceededPositions :
         scraped_data[Cardinality({q \in SucceededPositions : q <= p})].basic_information.url
             = product_urls[p]

C30_Witness ==
    /\ product_urls = <<UrlOther, UrlX, UrlBlueShirt>>
    /\ Len(outcomes) = 3
    /\ FailedPositions = {1, 3}
    /\ scraped_data[1].basic_information.url = UrlX

====
